---- MODULE Spec2Model ----
(***************************************************************************)
(* Quantile forecasting engine of CryptoPriceTracker: the dataset builder  *)
(* (backend/model/dataset.py), the training run that persists the          *)
(* artifacts (backend/model/train_model.py), the encoder patch             *)
(* (backend/model/add_metals_to_encoder.py) and the serving side           *)
(* (backend/services/predictor.py).                                        *)
(*                                                                         *)
(* Numbers.  The program computes on IEEE doubles; the model computes on   *)
(* integers in fixed point: a price or a normalized value v is the integer *)
(* v * ONE (ONE = 10000, so 0.01 is 100).  A product with a decimal        *)
(* literal of the code (0.95, 1.05, 0.50) is the exact rational product    *)
(* rounded down to the next 1/ONE; sqrt is rounded down to 1/1000.         *)
(***************************************************************************)
EXTENDS Integers, Sequences, FiniteSets, TLC

VARIABLES
    dataDir,        \* DATA_DIR: coin -> its <coin>/<coin>.csv file
    tpc,            \* position of the training process (train_model.main)
    todo,           \* entries of os.listdir(DATA_DIR) not yet iterated
    X, y, coin_ids, \* load_dataset's three parallel example lists
    coin_to_idx,    \* load_dataset's encoder under construction
    coin_scalers,   \* load_dataset's scaler store under construction
    idx,            \* load_dataset's next unused index
    done,           \* coins whose loop iteration has finished, with how
    run,            \* number of the current training run (0: none yet)
    epoch,          \* epochs of model.fit finished in the current run
    weights,        \* the weights of transformer_model in the training process
    history,        \* the losses of the epochs of model.fit finished in the current run
    parent,         \* what started the current training process: "shell", "server"
                    \* (retrain.py) or "fix" (run_complete_fix.py)
    fileCoinScalers,\* COIN_SCALERS_PATH (coin_scalers.pkl)
    fileScaler,     \* dataset.SCALER_PATH (scalar.pkl), the unused global scaler
    fileEncoder,    \* ENCODER_PATH (encoder.pkl)
    fileModel,      \* MODEL_PATH (crypto_transformer.keras)
    srv,            \* the serving process: "down" or "up" (predictor imported)
    model,          \* predictor.model
    scaler,         \* predictor.scaler
    asset_encoder,  \* predictor.asset_encoder
    lastCall,       \* the last predict_price call and what it returned or raised
    coin_encoder,   \* coins.coin_encoder
    lastResponse,   \* the last GET /predict request and the status it was answered with
    second,         \* a second training process, started while the first ran
    lastStatus,     \* the last check_training_status call and what it returned
    fix             \* run_complete_fix.main: its position and what it was told

dsVars   == <<tpc, todo, X, y, coin_ids, coin_to_idx, coin_scalers, idx, done>>
runVars  == <<run, epoch, weights, history, parent>>
diskVars == <<fileCoinScalers, fileScaler, fileEncoder, fileModel>>
srvVars  == <<srv, model, scaler, asset_encoder, lastCall, coin_encoder, lastResponse>>
opsVars  == <<second, lastStatus, fix>>
vars     == <<dataDir, dsVars, runVars, diskVars, srvVars, opsVars>>

----------------------------------------------------------------------------
(* Bounds of the model *)

\* rows beyond SEQ_LEN that a generated price file may hold
MaxExtra == 2

\* training runs started in one behaviour
MaxRuns == 2

\* epochs of model.fit followed in one run
MaxEpochs == 2

(* Program constants *)

SEQ_LEN == 30
LOOKBACK_DAYS == 730
EPOCHS == 20
\* predictor.py lines 91-92 and 154: the longest horizon
MAX_DAYS == 30
\* predictor.py line 178: max_change_pct, in percent
MAX_CHANGE_PCT == 50
\* fixed point: the integer that stands for 1.0 (0.01 is 100)
ONE == 100 * 100
\* predictor.py lines 169-171: the floor 0.01
FLOOR_PRICE == ONE \div 100

Coins == {"nifty50", "gold", "tcs"}

----------------------------------------------------------------------------
(* Generic helpers *)

Range(s) == {s[i] : i \in DOMAIN s}

Min2(a, b) == IF a <= b THEN a ELSE b
Max2(a, b) == IF a >= b THEN a ELSE b

\* a sequence given as a function on 1..n, evaluated once into a tuple
Eager(s) == SubSeq(s, 1, Len(s))

\* F applied to the value of e, with e evaluated once
With(e, F(_)) == CHOOSE r \in {F(x) : x \in {e}} : TRUE

\* the empty dict {}
EmptyDict == [c \in {} |-> 0]

\* d[k] = v on a dict d (a function on the set of its keys)
DictPut(d, k, v) == [c \in (DOMAIN d) \cup {k} |-> IF c = k THEN v ELSE d[c]]

\* k-th smallest element (1-based) of a non-empty sequence of integers
OrderStat(s, k) ==
    CHOOSE v \in Range(s) :
        /\ Cardinality({i \in DOMAIN s : s[i] < v}) < k
        /\ k <= Cardinality({i \in DOMAIN s : s[i] <= v})

\* numpy.percentile(s, p), linear interpolation between the two closest ranks
Percentile(s, p) ==
    LET n    == Len(s)
        h    == (n - 1) * p
        lo   == h \div 100
        frac == h % 100
        a    == OrderStat(s, lo + 1)
        b    == IF lo + 2 <= n THEN OrderStat(s, lo + 2) ELSE a
    IN  a + (frac * (b - a)) \div 100

----------------------------------------------------------------------------
(* sklearn.preprocessing.RobustScaler, as dataset.py and predictor.py use it *)

\* RobustScaler().fit(prices): center_ is the median, scale_ the interquartile
\* range, and a zero scale_ is replaced by 1.0
RobustScalerFit(prices) ==
    LET iqr == Percentile(prices, 75) - Percentile(prices, 25)
    IN  [center |-> Percentile(prices, 50),
         scale  |-> IF iqr = 0 THEN ONE ELSE iqr]

\* scaler.transform on one value: (x - center_) / scale_
Transform(sc, x) == ((x - sc.center) * ONE) \div sc.scale

\* mutant of InverseTransform: the center is not added back
InverseTransform_NoCenter(sc, v) == (v * sc.scale) \div ONE

\* scaler.inverse_transform on one value: v * scale_ + center_
InverseTransform(sc, v) == (v * sc.scale) \div ONE + sc.center

TransformSeq(sc, prices) == Eager([i \in 1..Len(prices) |-> Transform(sc, prices[i])])

----------------------------------------------------------------------------
(* Price files under DATA_DIR *)

\* A file is [exists, hasClose, hasTs, rows]; a row is [ts, close] with ts a
\* day number (0 when the file has no timestamp column).

\* the closing price of coin c at row i of a generated history: a ramp, a
\* zigzag and a constant series, so that no two coins share a series
PriceAt(c, i) ==
    IF c = "nifty50" THEN ONE + 500 * i
    ELSE IF c = "gold" THEN 3 * ONE + (IF i % 2 = 0 THEN 2000 ELSE -2000) + 100 * (i % 5)
    ELSE 2 * ONE

\* a price from an old scale regime, carried by the stale rows
StalePrice == ONE \div 100

AbsentFile == [exists |-> FALSE, hasClose |-> FALSE, hasTs |-> FALSE, rows |-> <<>>]

\* n rows, no timestamp column
PlainFile(c, n) ==
    [exists |-> TRUE, hasClose |-> TRUE, hasTs |-> FALSE,
     rows |-> Eager([i \in 1..n |-> [ts |-> 0, close |-> PriceAt(c, i)]])]

\* n rows without a Close column
NoCloseFile(c, n) ==
    [exists |-> TRUE, hasClose |-> FALSE, hasTs |-> FALSE,
     rows |-> Eager([i \in 1..n |-> [ts |-> 0, close |-> 0]])]

\* n rows with a timestamp column; the last s rows of the file are stale
\* (older than LOOKBACK_DAYS before the newest row) and out of order
TimestampFile(c, n, s) ==
    [exists |-> TRUE, hasClose |-> TRUE, hasTs |-> TRUE,
     rows |-> Eager([i \in 1..n |->
                 IF i <= n - s
                 THEN [ts |-> 1000 + i, close |-> PriceAt(c, i)]
                 ELSE [ts |-> i - (n - s), close |-> StalePrice]])]

\* the files generated for coin c: none, one without a Close column, plain
\* ones of SEQ_LEN - 1 to SEQ_LEN + MaxExtra rows, and timestamped ones of
\* SEQ_LEN + MaxExtra rows of which 1 to MaxExtra are stale
FilesOf(c) ==
    {AbsentFile, NoCloseFile(c, SEQ_LEN + 1)}
    \cup {PlainFile(c, n) : n \in (SEQ_LEN - 1)..(SEQ_LEN + MaxExtra)}
    \cup {TimestampFile(c, SEQ_LEN + MaxExtra, s) : s \in 1..MaxExtra}

----------------------------------------------------------------------------
(* dataset.py: load_dataset *)

MaxTs(rows) == CHOOSE t \in {rows[i].ts : i \in DOMAIN rows} :
                   \A i \in DOMAIN rows : rows[i].ts <= t

\* the rows of s that satisfy keep, in their order
RECURSIVE SelectRows(_, _)
SelectRows(rows, cutoff) ==
    IF rows = <<>> THEN <<>>
    ELSE LET rest == SelectRows(Tail(rows), cutoff)
         IN  IF Head(rows).ts >= cutoff THEN <<Head(rows)>> \o rest ELSE rest

\* df.sort_values('timestamp'): rows by ascending timestamp (rows of equal
\* timestamp keep their order)
SortByTs(rows) ==
    With(Eager([i \in 1..Len(rows) |->
                  Cardinality({j \in DOMAIN rows : rows[j].ts < rows[i].ts})
                  + Cardinality({j \in DOMAIN rows : j < i /\ rows[j].ts = rows[i].ts})
                  + 1]),
         LAMBDA pos :
             Eager([k \in 1..Len(rows) |-> rows[CHOOSE i \in DOMAIN rows : pos[i] = k]]))

\* df.tail(k)
TailRows(rows, k) ==
    IF Len(rows) <= k THEN rows ELSE SubSeq(rows, Len(rows) - k + 1, Len(rows))

\* dataset.py lines 50-58: the recency filter
RecentRows(file) ==
    IF file.hasTs
    THEN IF file.rows = <<>> THEN <<>>
         ELSE SortByTs(SelectRows(file.rows, MaxTs(file.rows) - LOOKBACK_DAYS))
    ELSE TailRows(file.rows, LOOKBACK_DAYS)

ClosePrices(rows) == Eager([i \in 1..Len(rows) |-> rows[i].close])

\* retrain.py lines 29-34 and 66-71: the training process started by the
\* serving process writes its stdout to a pipe that the serving process holds
\* and never reads.  PipeCapacity is what the pipe buffer holds, in chunks of
\* output.
PipeCapacity == 14

\* the steps of train_model.main after the loop of load_dataset that the
\* training process has finished, each of which prints a chunk
StepsDone ==
    CASE tpc \in {"failed", "dump_scalers"} -> 1
      [] tpc = "dump_global" -> 2
      [] tpc = "dump_encoder" -> 3
      [] tpc = "build" -> 4
      [] tpc = "fit" -> 5
      [] tpc \in {"save", "crashed"} -> 6
      [] tpc = "done" -> 7
      [] OTHER -> 0

\* what the training process has printed so far, in chunks: one per loop
\* iteration that prints (dataset.py lines 61, 86, 90), one per later step, and
\* for every epoch one per batch (train_model.py line 245, verbose=1), a batch
\* being one example here
Written ==
    Cardinality({c \in DOMAIN done : done[c] # "nofile"}) + StepsDone + epoch * Len(X)

\* a write to a full pipe blocks until the other end reads
Blocked == parent = "server" /\ Written >= PipeCapacity

\* mutant of LoopEnd: the check of line 93 is missing
LoopEnd_NoCheck ==
    /\ tpc = "loop"
    /\ ~Blocked
    /\ todo = {}
    /\ tpc' = "dump_scalers"
    /\ UNCHANGED <<dataDir, opsVars, todo, X, y, coin_ids, coin_to_idx, coin_scalers, idx, done,
                   runVars, diskVars, srvVars>>

\* mutant of EnoughRows: the threshold one row too low
EnoughRows_OffByOne(rows) == Len(rows) >= SEQ_LEN

\* dataset.py line 60: enough rows for one window and its target
EnoughRows(rows) == Len(rows) >= SEQ_LEN + 1

\* mutant of WindowStarts: the last window position is left out
WindowStarts_OffByOne(scaled) == 1..(Len(scaled) - SEQ_LEN - 1)

\* dataset.py line 80: the window positions, range(len(prices_scaled) - SEQ_LEN)
WindowStarts(scaled) == 1..(Len(scaled) - SEQ_LEN)

\* mutant of WindowAt: the slice one element short
WindowAt_Short(scaled, i) == SubSeq(scaled, i, i + SEQ_LEN - 2)

\* dataset.py line 81: prices_scaled[i : i + SEQ_LEN] (i is 1-based here)
WindowAt(scaled, i) == SubSeq(scaled, i, i + SEQ_LEN - 1)

\* dataset.py line 82: prices_scaled[i + SEQ_LEN]
TargetAt(scaled, i) == scaled[i + SEQ_LEN]

\* mutant of CoinOutcome: the length check of line 60 is missing
CoinOutcome_NoSkip(file) ==
    IF ~file.exists THEN "nofile"
    ELSE IF ~file.hasClose THEN "error"
    ELSE "loaded"

\* how one iteration of the loop (lines 41-91) ends for a file: "nofile" (line
\* 44), "skipped" (line 60), "error" (line 64 raises KeyError, caught at line
\* 89) or "loaded"
CoinOutcome(file) ==
    IF ~file.exists THEN "nofile"
    ELSE IF ~EnoughRows(RecentRows(file)) THEN "skipped"
    ELSE IF ~file.hasClose THEN "error"
    ELSE "loaded"

\* dataset.py line 30-33: the state at the top of load_dataset
LoadDatasetStart ==
    /\ X = <<>> /\ y = <<>> /\ coin_ids = <<>>
    /\ coin_to_idx = EmptyDict
    /\ coin_scalers = EmptyDict
    /\ idx = 0

\* mutant of LoadCoin: the scaler fitted on the first asset is used for all
LoadCoin_FirstScaler(coin) ==
    /\ tpc = "loop"
    /\ ~Blocked
    /\ coin \in todo
    /\ todo' = todo \ {coin}
    /\ \E file \in {dataDir[coin]} :
       \E outcome \in {CoinOutcome(file)} :
          /\ done' = DictPut(done, coin, outcome)
          /\ IF outcome # "loaded"
             THEN UNCHANGED <<X, y, coin_ids, coin_to_idx, coin_scalers, idx>>
             ELSE \E prices \in {ClosePrices(RecentRows(file))} :
                  \E sc \in {IF DOMAIN coin_scalers = {} THEN RobustScalerFit(prices)
                              ELSE coin_scalers[CHOOSE c \in DOMAIN coin_scalers : TRUE]} :
                  \E scaled \in {TransformSeq(sc, prices)} :
                  \E enc \in {IF coin \in DOMAIN coin_to_idx THEN coin_to_idx
                               ELSE DictPut(coin_to_idx, coin, idx)} :
                  \E k \in {Cardinality(WindowStarts(scaled))} :
                     \* line 72
                     /\ coin_scalers' = DictPut(coin_scalers, coin, sc)
                     \* lines 75-77
                     /\ coin_to_idx' = enc
                     /\ idx' = IF coin \in DOMAIN coin_to_idx THEN idx ELSE idx + 1
                     \* lines 80-83
                     /\ X' = X \o Eager([i \in 1..k |-> WindowAt(scaled, i)])
                     /\ y' = y \o Eager([i \in 1..k |-> TargetAt(scaled, i)])
                     /\ coin_ids' = coin_ids \o Eager([i \in 1..k |-> enc[coin]])
    /\ UNCHANGED <<dataDir, opsVars, tpc, runVars, diskVars, srvVars>>

\* dataset.py lines 41-91: one iteration of the loop over os.listdir(DATA_DIR),
\* which lists the entries in no particular order
LoadCoin(coin) ==
    /\ tpc = "loop"
    /\ ~Blocked
    /\ coin \in todo
    /\ todo' = todo \ {coin}
    /\ \E file \in {dataDir[coin]} :
       \E outcome \in {CoinOutcome(file)} :
          /\ done' = DictPut(done, coin, outcome)
          /\ IF outcome # "loaded"
             THEN UNCHANGED <<X, y, coin_ids, coin_to_idx, coin_scalers, idx>>
             ELSE \E prices \in {ClosePrices(RecentRows(file))} :
                  \E sc \in {RobustScalerFit(prices)} :
                  \E scaled \in {TransformSeq(sc, prices)} :
                  \E enc \in {IF coin \in DOMAIN coin_to_idx THEN coin_to_idx
                               ELSE DictPut(coin_to_idx, coin, idx)} :
                  \E k \in {Cardinality(WindowStarts(scaled))} :
                     \* line 72
                     /\ coin_scalers' = DictPut(coin_scalers, coin, sc)
                     \* lines 75-77
                     /\ coin_to_idx' = enc
                     /\ idx' = IF coin \in DOMAIN coin_to_idx THEN idx ELSE idx + 1
                     \* lines 80-83
                     /\ X' = X \o Eager([i \in 1..k |-> WindowAt(scaled, i)])
                     /\ y' = y \o Eager([i \in 1..k |-> TargetAt(scaled, i)])
                     /\ coin_ids' = coin_ids \o Eager([i \in 1..k |-> enc[coin]])
    /\ UNCHANGED <<dataDir, opsVars, tpc, runVars, diskVars, srvVars>>

\* dataset.py line 93: the loop is over
LoopEnd ==
    /\ tpc = "loop"
    /\ ~Blocked
    /\ todo = {}
    /\ tpc' = IF Len(X) = 0 THEN "failed" ELSE "dump_scalers"
    /\ UNCHANGED <<dataDir, opsVars, todo, X, y, coin_ids, coin_to_idx, coin_scalers, idx, done,
                   runVars, diskVars, srvVars>>

----------------------------------------------------------------------------
(* The artifact files and the rest of a training run: dataset.py lines      *)
(* 103-120 and train_model.py main                                          *)

NoDictFile == [present |-> FALSE, run |-> 0, data |-> EmptyDict]
NoFlagFile == [present |-> FALSE, run |-> 0]
NoModelFile == [present |-> FALSE, run |-> 0, data |-> [num_coins |-> 0, weights |-> 0]]

\* what a network can answer for one input, in normalized space: <<q10, q50, q90>>
\* (a well ordered triple, an inverted one, one far below and one far above the
\* asset's recent prices)
ModelOutputs ==
    << <<-2000, 0, 2000>>,
       <<3000, 1000, -1000>>,
       <<-30000, -25000, -20000>>,
       <<20000, 30000, 40000>> >>

\* The weights of a network are named by the number of epochs they were
\* fitted for (0: as initialised).
Weights == 0..EPOCHS

\* mutant of NumCoins: the highest index instead of the number of indices
NumCoins_HighestIndex == idx - 1

\* len(coin_to_idx), the num_coins that load_dataset returns (line 120)
NumCoins == Cardinality(DOMAIN coin_to_idx)

\* train_model.py line 160 in a new process started by who: the state at the
\* top of load_dataset.  The model follows one training process at a time.
StartTraining(who) ==
    /\ tpc \in {"idle", "done", "failed", "crashed"}
    /\ run < MaxRuns
    /\ run' = run + 1
    /\ parent' = who
    /\ epoch' = 0 /\ weights' = 0 /\ history' = <<>>
    /\ tpc' = "loop"
    /\ todo' = Coins
    /\ X' = <<>> /\ y' = <<>> /\ coin_ids' = <<>>
    /\ coin_to_idx' = EmptyDict
    /\ coin_scalers' = EmptyDict
    /\ idx' = 0
    /\ done' = EmptyDict
    /\ UNCHANGED <<dataDir, opsVars, diskVars, srvVars>>

\* python train_model.py, run from a shell
TrainStart == StartTraining("shell")

\* retrain.py lines 6-83: retrain_coin and retrain_all_coins, called in the
\* serving process, start train_model.py in a process of its own (Popen,
\* lines 29-34 and 66-71) and return; train_model.py ignores its arguments
Retrain ==
    /\ srv = "up"
    /\ StartTraining("server")

\* dataset.py line 107: joblib.dump(coin_scalers, COIN_SCALERS_PATH)
DumpCoinScalers ==
    /\ tpc = "dump_scalers"
    /\ ~Blocked
    /\ fileCoinScalers' = [present |-> TRUE, run |-> run, data |-> coin_scalers]
    /\ tpc' = "dump_global"
    /\ UNCHANGED <<dataDir, opsVars, todo, X, y, coin_ids, coin_to_idx, coin_scalers, idx, done,
                   runVars, fileScaler, fileEncoder, fileModel, srvVars>>

\* dataset.py lines 111-114: the global scaler, written and never read
DumpGlobalScaler ==
    /\ tpc = "dump_global"
    /\ ~Blocked
    /\ fileScaler' = [present |-> TRUE, run |-> run]
    /\ tpc' = "dump_encoder"
    /\ UNCHANGED <<dataDir, opsVars, todo, X, y, coin_ids, coin_to_idx, coin_scalers, idx, done,
                   runVars, fileCoinScalers, fileEncoder, fileModel, srvVars>>

\* dataset.py lines 117-120: joblib.dump(coin_to_idx, ENCODER_PATH) and return
DumpEncoder ==
    /\ tpc = "dump_encoder"
    /\ ~Blocked
    /\ fileEncoder' = [present |-> TRUE, run |-> run, data |-> coin_to_idx]
    /\ tpc' = "build"
    /\ UNCHANGED <<dataDir, opsVars, todo, X, y, coin_ids, coin_to_idx, coin_scalers, idx, done,
                   runVars, fileCoinScalers, fileScaler, fileModel, srvVars>>

\* train_model.py lines 188-209: build_transformer(SEQ_LEN, num_coins), with
\* freshly initialised weights
BuildModel ==
    /\ tpc = "build"
    /\ ~Blocked
    /\ weights' = 0
    /\ epoch' = 0
    /\ tpc' = "fit"
    /\ UNCHANGED <<dataDir, opsVars, todo, X, y, coin_ids, coin_to_idx, coin_scalers, idx, done,
                   run, history, parent, diskVars, srvVars>>

\* what ModelCheckpoint and model.save write: the model with its embedding
\* table of num_coins rows (build_transformer.py lines 38-42)
SavedModel(w) ==
    [present |-> TRUE, run |-> run, data |-> [num_coins |-> NumCoins, weights |-> w]]

\* the epochs model.fit runs in the model
EpochLimit == Min2(EPOCHS, MaxEpochs)

\* A loss is a positive integer, or NaN for a non-finite one.
NaN == -1

\* the losses an epoch can end with
Losses == {1, 2, NaN}

\* train_model.py line 215: patience of EarlyStopping
PATIENCE == 5

\* np.less(v, best) of a callback whose best starts at np.inf and follows the
\* improvements: v is below every finite value seen before (prev)
Improves(v, prev) == v # NaN /\ \A i \in DOMAIN prev : prev[i] = NaN \/ v < prev[i]

\* the monitored values of the epochs so far
LossesOf(hist) == [i \in DOMAIN hist |-> hist[i].loss]
ValLossesOf(hist) == [i \in DOMAIN hist |-> hist[i].val_loss]

\* the last epoch at which the monitored value improved (0: never)
LastImproved(vals) ==
    IF \A i \in DOMAIN vals : vals[i] = NaN THEN 0
    ELSE CHOOSE i \in DOMAIN vals : Improves(vals[i], SubSeq(vals, 1, i - 1))
                                     /\ \A j \in DOMAIN vals : j > i => ~Improves(vals[j], SubSeq(vals, 1, j - 1))

\* EarlyStopping (lines 213-218, monitor='loss'): the epoch whose weights it
\* holds as best_weights (those of the first epoch until the loss improves)
BestLossEpoch(hist) == Max2(1, LastImproved(LossesOf(hist)))

\* EarlyStopping: wait has reached patience
Stopped(hist) == Len(hist) - LastImproved(LossesOf(hist)) >= PATIENCE

\* ModelCheckpoint (lines 226-231, monitor='val_loss', save_best_only): the
\* epoch just finished improved on the best val_loss
CheckpointDue(hist) ==
    Improves(hist[Len(hist)].val_loss, SubSeq(ValLossesOf(hist), 1, Len(hist) - 1))

\* train_model.py lines 238-246: one epoch of model.fit, ending with the losses
\* loss and val_loss; ModelCheckpoint saves to MODEL_PATH when val_loss
\* improved.  Nothing in the callbacks stops on a non-finite loss.  A network
\* whose loss is NaN has NaN weights: its val_loss and all later losses are NaN.
FitEpoch(loss, val_loss) ==
    /\ tpc = "fit"
    /\ ~Blocked
    /\ epoch < EpochLimit
    /\ ~Stopped(history)
    /\ loss = NaN => val_loss = NaN
    /\ (history # <<>> /\ history[Len(history)].loss = NaN) => loss = NaN
    /\ epoch' = epoch + 1
    /\ weights' = epoch + 1
    /\ history' = Append(history, [loss |-> loss, val_loss |-> val_loss])
    /\ fileModel' = IF CheckpointDue(history') THEN SavedModel(epoch + 1) ELSE fileModel
    /\ UNCHANGED <<dataDir, opsVars, dsVars, run, parent, fileCoinScalers, fileScaler, fileEncoder, srvVars>>

\* metrics.py lines 43-45: mape raises when every true value is zero, as the
\* normalized targets of constant price series are
MapeRaises == \A k \in DOMAIN y : y[k] = 0

\* model.fit returns, after the last epoch or stopped by EarlyStopping.  With
\* restore_best_weights=True a Keras 2 restores the weights of the best
\* training loss only when it stopped early, a Keras 3 whenever training ends.
\* evaluate_model (line 249) follows; an exception of it ends the process.
FitEnd ==
    /\ tpc = "fit"
    /\ ~Blocked
    /\ epoch = EpochLimit \/ Stopped(history)
    /\ tpc' = IF MapeRaises THEN "crashed" ELSE "save"
    /\ \E keras3 \in BOOLEAN :
          weights' = IF keras3 \/ Stopped(history) THEN BestLossEpoch(history) ELSE weights
    /\ UNCHANGED <<dataDir, opsVars, todo, X, y, coin_ids, coin_to_idx, coin_scalers, idx, done,
                   run, epoch, history, parent, diskVars, srvVars>>

\* train_model.py lines 254-258: transformer_model.save(MODEL_PATH)
SaveModel ==
    /\ tpc = "save"
    /\ ~Blocked
    /\ fileModel' = SavedModel(weights)
    /\ tpc' = "done"
    /\ UNCHANGED <<dataDir, opsVars, todo, X, y, coin_ids, coin_to_idx, coin_scalers, idx, done,
                   runVars, fileCoinScalers, fileScaler, fileEncoder, srvVars>>

----------------------------------------------------------------------------
(* add_metals_to_encoder.py *)

Metals == <<"gold", "silver">>

\* os.path.exists(DATA_DIR/<coin>/<coin>.csv)
DataFileExists(coin) == coin \in DOMAIN dataDir /\ dataDir[coin].exists

MaxValue(d) == CHOOSE m \in Range(d) : \A c \in DOMAIN d : d[c] <= m

\* lines 29-41, from metal number k on: enc is the encoder so far, mx the
\* highest index so far
RECURSIVE AddMetalsFrom(_, _, _)
AddMetalsFrom(k, enc, mx) ==
    IF k > Len(Metals) THEN enc
    ELSE IF DataFileExists(Metals[k]) /\ Metals[k] \notin DOMAIN enc
         THEN AddMetalsFrom(k + 1, DictPut(enc, Metals[k], mx + 1), mx + 1)
         ELSE AddMetalsFrom(k + 1, enc, mx)

\* lines 16-24 and 29-41: the encoder add_metals_to_encoder ends with
WithMetals(file) ==
    LET enc == IF file.present THEN file.data ELSE EmptyDict
    IN  AddMetalsFrom(1, enc, IF DOMAIN enc = {} THEN -1 ELSE MaxValue(enc))

\* add_metals_to_encoder(), run as a script at any time; it saves (lines 44-46)
\* only when it added a metal
AddMetalsToEncoder ==
    /\ \E enc \in {WithMetals(fileEncoder)} :
          /\ DOMAIN enc # (IF fileEncoder.present THEN DOMAIN fileEncoder.data ELSE {})
          /\ fileEncoder' = [present |-> TRUE, run |-> fileEncoder.run, data |-> enc]
    /\ UNCHANGED <<dataDir, opsVars, dsVars, runVars, fileCoinScalers, fileScaler, fileModel, srvVars>>

----------------------------------------------------------------------------
(* predictor.py *)

NoneModel == [loaded |-> FALSE, num_coins |-> 0, weights |-> 0, device |-> "cpu"]
NoneDict == [loaded |-> FALSE, data |-> EmptyDict]

\* mutant of LoadArtifacts: a running server loads the files again
LoadArtifacts_Reload ==
    /\ srv' = "up"
    /\ fileModel.present /\ fileCoinScalers.present /\ fileEncoder.present
    /\ \E dev \in {"cpu", "gpu"} :
          model' = [loaded |-> TRUE, num_coins |-> fileModel.data.num_coins,
                    weights |-> fileModel.data.weights, device |-> dev]
    /\ scaler' = [loaded |-> TRUE, data |-> fileCoinScalers.data]
    /\ asset_encoder' = [loaded |-> TRUE, data |-> fileEncoder.data]
    /\ UNCHANGED <<dataDir, opsVars, dsVars, runVars, diskVars, lastCall, coin_encoder, lastResponse>>

\* mutant of LoadArtifacts: each artifact is loaded in a try block of its own
LoadArtifacts_Partial ==
    /\ srv = "down"
    /\ srv' = "up"
    /\ \E dev \in {"cpu", "gpu"} :
          model' = IF fileModel.present
                   THEN [loaded |-> TRUE, num_coins |-> fileModel.data.num_coins,
                         weights |-> fileModel.data.weights, device |-> dev]
                   ELSE NoneModel
    /\ scaler' = IF fileCoinScalers.present
                 THEN [loaded |-> TRUE, data |-> fileCoinScalers.data] ELSE NoneDict
    /\ asset_encoder' = IF fileEncoder.present
                        THEN [loaded |-> TRUE, data |-> fileEncoder.data] ELSE NoneDict
    /\ UNCHANGED <<dataDir, opsVars, dsVars, runVars, diskVars, lastCall, coin_encoder, lastResponse>>

\* lines 24-56: the artifacts are loaded once, when the module is imported;
\* any failure leaves all three None.  The device the network runs on is
\* fixed by the installation.
LoadArtifacts ==
    /\ srv = "down"
    /\ srv' = "up"
    /\ IF fileModel.present /\ fileCoinScalers.present /\ fileEncoder.present
       THEN /\ \E dev \in {"cpu", "gpu"} :
                 model' = [loaded |-> TRUE, num_coins |-> fileModel.data.num_coins,
                           weights |-> fileModel.data.weights, device |-> dev]
            /\ scaler' = [loaded |-> TRUE, data |-> fileCoinScalers.data]
            /\ asset_encoder' = [loaded |-> TRUE, data |-> fileEncoder.data]
       ELSE /\ model' = NoneModel
            /\ scaler' = NoneDict
            /\ asset_encoder' = NoneDict
    /\ UNCHANGED <<dataDir, opsVars, dsVars, runVars, diskVars, lastCall, coin_encoder, lastResponse>>

\* round(float(x), 2): to the nearest 0.01, a tie to the even neighbour
Round2(x) ==
    LET r    == x % 100
        base == x - r
    IN  IF r < 50 THEN base
        ELSE IF r > 50 THEN base + 100
        ELSE IF (base \div 100) % 2 = 0 THEN base ELSE base + 100

\* the largest r in lo..hi with r * r <= n, by bisection
RECURSIVE ISqrt(_, _, _)
ISqrt(n, lo, hi) ==
    IF lo = hi THEN lo
    ELSE IF ((lo + hi + 1) \div 2) * ((lo + hi + 1) \div 2) <= n
         THEN ISqrt(n, (lo + hi + 1) \div 2, hi)
         ELSE ISqrt(n, lo, (lo + hi + 1) \div 2 - 1)

\* np.sqrt(d), in thousandths
SqrtMilli(d) == ISqrt(d * 1000000, 0, 1000 * d)

\* lines 151-155: min(np.sqrt(days_ahead), np.sqrt(30)), in thousandths
ScaleFactor(d) == Min2(SqrtMilli(d), SqrtMilli(MAX_DAYS))

\* lines 158-165: one quantile's change from the current price, scaled
Scaled(q, cp, sf) == cp + ((q - cp) * sf) \div 1000

\* lines 169-171: predictions should not be negative
Floor(q) == Max2(FLOOR_PRICE, q)

\* lines 174-175: the ordering step
OrderLow(q10, q50) == Min2(q10, (q50 * 95) \div 100)
OrderHigh(q90, q50) == Max2(q90, (q50 * 105) \div 100)

\* lines 178-180: the cap on the change from the current price
CapLow(q10, cp) == Max2(q10, (cp * (100 - MAX_CHANGE_PCT)) \div 100)
CapHigh(q90, cp) == Min2(q90, (cp * (100 + MAX_CHANGE_PCT)) \div 100)

\* lines 167-180 on the three scaled quantiles
Repair(s10, s50, s90, cp) ==
    [q10 |-> CapLow(OrderLow(Floor(s10), Floor(s50)), cp),
     q50 |-> Floor(s50),
     q90 |-> CapHigh(OrderHigh(Floor(s90), Floor(s50)), cp)]

\* lines 148-180: the adjustment for the horizon
Adjust(q, cp, d) ==
    IF d > 1
    THEN With(ScaleFactor(d), LAMBDA sf :
              Repair(Scaled(q.q10, cp, sf), Scaled(q.q50, cp, sf), Scaled(q.q90, cp, sf), cp))
    ELSE q

\* mutant of ClampDays: no upper clamp
ClampDays_NoUpper(d) == IF d < 1 THEN 1 ELSE d

\* lines 88-92: validate and clamp days_ahead
ClampDays(d) == IF d < 1 THEN 1 ELSE IF d > MAX_DAYS THEN MAX_DAYS ELSE d

\* a raise of predict_price: the exception, the check that raised it and what
\* the call had done by then
Raised(exc, why, effects) ==
    [status |-> exc, error |-> why, effects |-> effects,
     q10 |-> 0, q50 |-> 0, q90 |-> 0, current_price |-> 0, days_ahead |-> 0,
     prediction_range |-> 0, raw |-> [q10 |-> 0, q50 |-> 0, q90 |-> 0]]

\* lines 189-198: the dict predict_price returns (raw: the values before round)
Returned(q, cp, d) ==
    [status |-> "ok", error |-> "", effects |-> {"history", "model"},
     q10 |-> Round2(q.q10), q50 |-> Round2(q.q50), q90 |-> Round2(q.q90),
     current_price |-> Round2(cp), days_ahead |-> d,
     prediction_range |-> Round2(q.q90 - q.q10), raw |-> q]

\* model.predict([X, asset_id]): a network is a function of its weights and its
\* input; the embedding row asset_id selects the answer
ModelPredict(w, window, asset_id) ==
    ModelOutputs[((w + asset_id + (IF window[SEQ_LEN] < 0 THEN 1 ELSE 0)) % Len(ModelOutputs)) + 1]

\* lines 137-143: the three outputs on the price scale
Denormalize(sc, out) ==
    [q10 |-> InverseTransform(sc, out[1]),
     q50 |-> InverseTransform(sc, out[2]),
     q90 |-> InverseTransform(sc, out[3])]

\* lines 127-198, with the prices read and the asset's scaler at hand.  An
\* index outside the embedding table makes the lookup fail on a CPU and is
\* answered from a zero row on a GPU.
PredictScaled(asset, d, prices, sc, window) ==
    IF asset_encoder.data[asset] >= model.num_coins /\ model.device = "cpu"
    THEN Raised("ValueError", "prediction_failed", {"history", "model"})
    ELSE With(Denormalize(sc, ModelPredict(model.weights, window, asset_encoder.data[asset])),
              LAMBDA out :
                  With(Adjust(out, prices[Len(prices)], d),
                       LAMBDA q : Returned(q, prices[Len(prices)], d)))

\* lines 108-127, with the Close column read
PredictFromPrices(asset, d, prices) ==
    IF Len(prices) < SEQ_LEN
    THEN Raised("ValueError", "not_enough_data", {"history"})
    ELSE IF asset \notin DOMAIN scaler.data
    THEN Raised("ValueError", "no_scaler", {"history"})
    ELSE PredictScaled(asset, d, prices, scaler.data[asset],
                       SubSeq(TransformSeq(scaler.data[asset], prices),
                              Len(prices) - SEQ_LEN + 1, Len(prices)))

\* lines 94-106: the historical data
PredictKnown(asset, d) ==
    IF ~DataFileExists(asset)
    THEN Raised("ValueError", "no_data", {})
    ELSE IF ~dataDir[asset].hasClose
    THEN Raised("ValueError", "no_close_column", {"history"})
    ELSE With(ClosePrices(dataDir[asset].rows),
              LAMBDA prices : PredictFromPrices(asset, d, prices))

\* lines 74-78
ArtifactsLoaded == model.loaded /\ scaler.loaded /\ asset_encoder.loaded

\* lines 80-86
AssetKnown(asset) == asset \in DOMAIN asset_encoder.data

\* mutant of predict_price: the membership check of lines 80-86 is missing
predict_price_NoAssetCheck(asset, days_ahead) ==
    IF ~ArtifactsLoaded
    THEN Raised("RuntimeError", "not_loaded", {})
    ELSE PredictKnown(asset, ClampDays(days_ahead))

\* predict_price(asset, days_ahead)
predict_price(asset, days_ahead) ==
    IF ~ArtifactsLoaded
    THEN Raised("RuntimeError", "not_loaded", {})
    ELSE IF ~AssetKnown(asset)
    THEN Raised("ValueError", "unknown_asset", {})
    ELSE PredictKnown(asset, ClampDays(days_ahead))

NoCall == [asset |-> "", days_ahead |-> 0, result |-> Raised("", "", {})]

\* the identifiers and horizons a caller passes
Assets == Coins \cup {"unknown_id"}
Horizons == {-1, 0, 1, 2, 7, MAX_DAYS, MAX_DAYS + 1, MAX_DAYS + 15}

\* mutant of Predict: the call drops the scaler it used from the store
Predict_DropsScaler(asset, days_ahead) ==
    /\ srv = "up"
    /\ \E r \in {predict_price(asset, days_ahead)} :
          lastCall' = [asset |-> asset, days_ahead |-> days_ahead, result |-> r]
    /\ scaler' = [scaler EXCEPT !.data = [c \in (DOMAIN scaler.data) \ {asset} |-> scaler.data[c]]]
    /\ UNCHANGED <<dataDir, opsVars, dsVars, runVars, diskVars, srv, model, asset_encoder,
                   coin_encoder, lastResponse>>

\* a call of predict_price by the serving process
Predict(asset, days_ahead) ==
    /\ srv = "up"
    /\ \E r \in {predict_price(asset, days_ahead)} :
          lastCall' = [asset |-> asset, days_ahead |-> days_ahead, result |-> r]
    /\ UNCHANGED <<dataDir, opsVars, dsVars, runVars, diskVars, srv, model, scaler, asset_encoder,
                   coin_encoder, lastResponse>>

----------------------------------------------------------------------------
(* main.py and coins.py: the HTTP layer over predict_price *)

\* coins.py not imported yet
NotImported == [imported |-> FALSE, data |-> EmptyDict]

\* coins.py lines 9-28: coin_encoder is loaded once, when main.py imports the
\* module (line 8, after the predictor at line 7); a missing file leaves {}
LoadCoinEncoder ==
    /\ srv = "up"
    /\ ~coin_encoder.imported
    /\ coin_encoder' = [imported |-> TRUE,
                        data |-> IF fileEncoder.present THEN fileEncoder.data ELSE EmptyDict]
    /\ UNCHANGED <<dataDir, opsVars, dsVars, runVars, diskVars, srv, model, scaler, asset_encoder,
                   lastCall, lastResponse>>

\* coins.py lines 129-139
is_coin_available(coin) == coin \in DOMAIN coin_encoder.data

\* main.py lines 116-121: Query(ge=1, le=30)
ValidQuery(days_ahead) == 1 <= days_ahead /\ days_ahead <= MAX_DAYS

NoException == [type |-> "none", status_code |-> 0]

\* main.py lines 133-167: what the body of the try block raises
RaisedInTry(asset, result) ==
    IF ~is_coin_available(asset)
    THEN [type |-> "HTTPException", status_code |-> 404]
    ELSE IF result.status = "ok" THEN NoException
    ELSE [type |-> result.status, status_code |-> 0]

\* main.py lines 169-183: the except clauses in their order.  HTTPException is
\* a subclass of Exception and neither ValueError nor FileNotFoundError, so
\* one raised in the try block is caught by the last clause.
ExceptClause(exc) ==
    IF exc.type = "none" THEN 200
    ELSE IF exc.type = "ValueError" THEN 400
    ELSE IF exc.type = "FileNotFoundError" THEN 404
    ELSE 500

\* the status a request is answered with; FastAPI answers 422 for a query
\* parameter out of range, without calling the handler
HttpStatus(asset, days_ahead, result) ==
    IF ~ValidQuery(days_ahead) THEN 422
    ELSE ExceptClause(RaisedInTry(asset, result))

NoResponse == [asset |-> "", days_ahead |-> 0, status |-> 0]

\* the horizons a client asks for
ApiHorizons == {0, 1, 7}

\* main.py lines 113-183: GET /predict/{asset}?days_ahead=...
PredictRequest(asset, days_ahead) ==
    /\ srv = "up"
    /\ coin_encoder.imported
    /\ \E r \in {predict_price(asset, days_ahead)} :
          /\ lastResponse' = [asset |-> asset, days_ahead |-> days_ahead,
                              status |-> HttpStatus(asset, days_ahead, r)]
          /\ lastCall' = IF ValidQuery(days_ahead) /\ is_coin_available(asset)
                         THEN [asset |-> asset, days_ahead |-> days_ahead, result |-> r]
                         ELSE lastCall
    /\ UNCHANGED <<dataDir, opsVars, dsVars, runVars, diskVars, srv, model, scaler, asset_encoder,
                   coin_encoder>>

----------------------------------------------------------------------------
(* Specifications *)

NothingOnDisk ==
    /\ fileCoinScalers = NoDictFile
    /\ fileScaler = NoFlagFile
    /\ fileEncoder = NoDictFile
    /\ fileModel = NoModelFile

\* no second training process, no status call and no run_complete_fix yet
NoSecond == [pc |-> "none", pid |-> 0]
NoStatus == [process_id |-> 0, status |-> ""]
FixOff == [pc |-> "off", passed |-> FALSE, said |-> ""]
OpsIdle ==
    /\ second = NoSecond
    /\ lastStatus = NoStatus
    /\ fix = FixOff

ServerDown ==
    /\ srv = "down"
    /\ model = NoneModel
    /\ scaler = NoneDict
    /\ asset_encoder = NoneDict
    /\ lastCall = NoCall
    /\ coin_encoder = NotImported
    /\ lastResponse = NoResponse

\* load_dataset alone, on every generated DATA_DIR
DatasetInit ==
    /\ dataDir \in [Coins -> UNION {FilesOf(c) : c \in Coins}]
    /\ \A c \in Coins : dataDir[c] \in FilesOf(c)
    /\ tpc = "loop"
    /\ todo = Coins
    /\ LoadDatasetStart
    /\ done = EmptyDict
    /\ run = 1 /\ epoch = 0 /\ weights = 0
    /\ history = <<>> /\ parent = "shell"
    /\ NothingOnDisk
    /\ ServerDown
    /\ OpsIdle

DatasetNext ==
    \/ \E coin \in Coins : LoadCoin(coin)
    \/ LoopEnd

SpecDataset == DatasetInit /\ [][DatasetNext]_vars

\* predict_price alone: a serving process started after a training run over
\* DATA_DIR has completed

\* the order in which os.listdir listed DATA_DIR in that run
ListingOrder == <<"gold", "nifty50", "tcs">>

\* the encoder load_dataset builds over dir, from entry k of the listing on
RECURSIVE EncoderFrom(_, _, _)
EncoderFrom(k, dir, enc) ==
    IF k > Len(ListingOrder) THEN enc
    ELSE IF CoinOutcome(dir[ListingOrder[k]]) = "loaded"
         THEN EncoderFrom(k + 1, dir, DictPut(enc, ListingOrder[k], Cardinality(DOMAIN enc)))
         ELSE EncoderFrom(k + 1, dir, enc)

\* the scaler store load_dataset builds over dir
ScalersOf(dir) ==
    [c \in {c \in Coins : CoinOutcome(dir[c]) = "loaded"} |->
        RobustScalerFit(ClosePrices(RecentRows(dir[c])))]

\* DATA_DIRs in which at most one coin's file is not the plain SEQ_LEN + 1 rows
PredictDirs ==
    {d \in [Coins -> UNION {FilesOf(c) : c \in Coins}] :
        /\ \A c \in Coins : d[c] \in FilesOf(c)
        /\ Cardinality({c \in Coins : d[c] # PlainFile(c, SEQ_LEN + 1)}) <= 1}

PredictInit ==
    /\ dataDir \in PredictDirs
    /\ tpc = "idle"
    /\ todo = {}
    /\ LoadDatasetStart
    /\ done = EmptyDict
    /\ run = 1 /\ epoch = 0
    /\ history = <<>> /\ parent = "shell"
    /\ weights \in 0..(Len(ModelOutputs) - 1)
    /\ \E enc \in {EncoderFrom(1, dataDir, EmptyDict)} :
          IF DOMAIN enc = {}
          THEN NothingOnDisk
          ELSE /\ fileCoinScalers = [present |-> TRUE, run |-> 1, data |-> ScalersOf(dataDir)]
               /\ fileScaler = [present |-> TRUE, run |-> 1]
               /\ fileEncoder = [present |-> TRUE, run |-> 1, data |-> enc]
               /\ fileModel = [present |-> TRUE, run |-> 1,
                               data |-> [num_coins |-> Cardinality(DOMAIN enc),
                                         weights |-> weights]]
    /\ ServerDown
    /\ OpsIdle

PredictNext ==
    \/ LoadArtifacts
    \/ \E asset \in Assets, d \in Horizons : Predict(asset, d)

SpecPredict == PredictInit /\ [][PredictNext]_vars

\* The start of a serving process over what a completed training run left,
\* any of the three artifact files being there or not (an unreadable file
\* ends in the same except clauses as a missing one)
LoadInit ==
    /\ dataDir \in PredictDirs
    /\ \A c \in Coins : dataDir[c] \in {PlainFile(c, SEQ_LEN), PlainFile(c, SEQ_LEN + 1)}
    /\ DOMAIN EncoderFrom(1, dataDir, EmptyDict) # {}
    /\ tpc = "idle"
    /\ todo = {}
    /\ LoadDatasetStart
    /\ done = EmptyDict
    /\ run = 1 /\ epoch = 0
    /\ history = <<>> /\ parent = "shell"
    /\ weights \in 0..(Len(ModelOutputs) - 1)
    /\ fileCoinScalers \in {NoDictFile, [present |-> TRUE, run |-> 1, data |-> ScalersOf(dataDir)]}
    /\ fileScaler = [present |-> TRUE, run |-> 1]
    /\ fileEncoder \in {NoDictFile, [present |-> TRUE, run |-> 1,
                                      data |-> EncoderFrom(1, dataDir, EmptyDict)]}
    /\ fileModel \in {NoModelFile,
                      [present |-> TRUE, run |-> 1,
                       data |-> [num_coins |-> Cardinality(DOMAIN EncoderFrom(1, dataDir, EmptyDict)),
                                 weights |-> weights]]}
    /\ ServerDown
    /\ OpsIdle

SpecLoad == LoadInit /\ [][PredictNext]_vars

\* The whole system: training runs, the encoder patch and a serving process,
\* interleaved, on a few DATA_DIRs whose files do not change
SystemDirs ==
    {d \in [Coins -> UNION {FilesOf(c) : c \in Coins}] :
        /\ d["nifty50"] \in {PlainFile("nifty50", SEQ_LEN + 1), NoCloseFile("nifty50", SEQ_LEN + 1)}
        /\ d["gold"] \in {PlainFile("gold", SEQ_LEN), PlainFile("gold", SEQ_LEN + 1)}
        /\ d["tcs"] \in {AbsentFile, PlainFile("tcs", SEQ_LEN + 2)}}

SystemHorizons == {7}

Init ==
    /\ dataDir \in SystemDirs
    /\ tpc = "idle"
    /\ todo = {}
    /\ LoadDatasetStart
    /\ done = EmptyDict
    /\ run = 0 /\ epoch = 0 /\ weights = 0
    /\ history = <<>> /\ parent = "none"
    /\ NothingOnDisk
    /\ ServerDown
    /\ OpsIdle

\* the losses of an epoch followed in the whole system
SystemLosses == {1}

Next ==
    \/ TrainStart
    \/ \E coin \in Coins : LoadCoin(coin)
    \/ LoopEnd
    \/ DumpCoinScalers
    \/ DumpGlobalScaler
    \/ DumpEncoder
    \/ BuildModel
    \/ \E loss \in SystemLosses, val_loss \in SystemLosses : FitEpoch(loss, val_loss)
    \/ FitEnd
    \/ SaveModel
    \/ AddMetalsToEncoder
    \/ LoadArtifacts
    \/ \E asset \in Assets, d \in SystemHorizons : Predict(asset, d)

Spec == Init /\ [][Next]_vars

\* A serving process over the artifacts of a completed run, and the training
\* runs it starts by retrain_coin / retrain_all_coins
RetrainNext ==
    \/ LoadArtifacts
    \/ Retrain
    \/ \E coin \in Coins : LoadCoin(coin)
    \/ LoopEnd
    \/ DumpCoinScalers
    \/ DumpGlobalScaler
    \/ DumpEncoder
    \/ BuildModel
    \/ \E loss \in SystemLosses, val_loss \in SystemLosses : FitEpoch(loss, val_loss)
    \/ FitEnd
    \/ SaveModel
    \/ \E asset \in Assets, d \in SystemHorizons : Predict(asset, d)

\* DATA_DIRs of plain files, gold's with or without enough rows for training
RetrainDirs ==
    {d \in PredictDirs :
        /\ d["nifty50"] = PlainFile("nifty50", SEQ_LEN + 1)
        /\ d["tcs"] = PlainFile("tcs", SEQ_LEN + 1)
        /\ d["gold"] \in {PlainFile("gold", SEQ_LEN), PlainFile("gold", SEQ_LEN + 1)}}

RetrainInit == PredictInit /\ dataDir \in RetrainDirs

SpecRetrain == RetrainInit /\ [][RetrainNext]_vars

\* a step of the training process
TrainingStep ==
    \/ \E coin \in Coins : LoadCoin(coin)
    \/ LoopEnd
    \/ DumpCoinScalers
    \/ DumpGlobalScaler
    \/ DumpEncoder
    \/ BuildModel
    \/ \E loss \in SystemLosses, val_loss \in SystemLosses : FitEpoch(loss, val_loss)
    \/ FitEnd
    \/ SaveModel

\* The same, the training process being scheduled as long as it can run: it is
\* a process of its own (start_new_session=True), so what the serving process
\* does or does not do never keeps it from the processor
SpecRetrainFair == RetrainInit /\ [][RetrainNext]_vars /\ WF_vars(TrainingStep)

----------------------------------------------------------------------------
(* retrain.py: retrain calls while a training process runs, and              *)
(* check_training_status                                                     *)

\* the training process has exited: main returned or raised
Exited == tpc \in {"done", "failed", "crashed"}

\* a training process is running
Training == tpc # "idle" /\ ~Exited

\* the process id of the second training process; that of the first is the
\* number of its run
SecondPid == MaxRuns + 1

\* retrain.py lines 6-46 and 49-83 have no check for a training process that
\* is still running: a call made while one runs starts another.  The model
\* follows this second process at its writes to the artifact files only; it
\* iterates DATA_DIR in ListingOrder.
RetrainAgain ==
    /\ srv = "up"
    /\ Training
    /\ second.pc = "none"
    /\ second' = [pc |-> "load_dataset", pid |-> SecondPid]
    /\ UNCHANGED <<dataDir, dsVars, runVars, diskVars, srvVars, lastStatus, fix>>

\* dataset.py lines 30-107 in the second process: the loop, the check of line
\* 93 and the dump of the coin scalers
SecondDumpCoinScalers ==
    /\ second.pc = "load_dataset"
    /\ \E scalers \in {ScalersOf(dataDir)} :
          IF DOMAIN scalers = {}
          THEN /\ second' = [second EXCEPT !.pc = "failed"]
               /\ UNCHANGED fileCoinScalers
          ELSE /\ second' = [second EXCEPT !.pc = "dump_global"]
               /\ fileCoinScalers' = [present |-> TRUE, run |-> second.pid, data |-> scalers]
    /\ UNCHANGED <<dataDir, dsVars, runVars, fileScaler, fileEncoder, fileModel, srvVars,
                   lastStatus, fix>>

\* dataset.py lines 111-114 in the second process
SecondDumpGlobalScaler ==
    /\ second.pc = "dump_global"
    /\ second' = [second EXCEPT !.pc = "dump_encoder"]
    /\ fileScaler' = [present |-> TRUE, run |-> second.pid]
    /\ UNCHANGED <<dataDir, dsVars, runVars, fileCoinScalers, fileEncoder, fileModel, srvVars,
                   lastStatus, fix>>

\* dataset.py lines 117-120 in the second process
SecondDumpEncoder ==
    /\ second.pc = "dump_encoder"
    /\ second' = [second EXCEPT !.pc = "fit"]
    /\ fileEncoder' = [present |-> TRUE, run |-> second.pid,
                       data |-> EncoderFrom(1, dataDir, EmptyDict)]
    /\ UNCHANGED <<dataDir, dsVars, runVars, fileCoinScalers, fileScaler, fileModel, srvVars,
                   lastStatus, fix>>

\* the model file the second process writes, its weights being w
SecondModel(w) ==
    [present |-> TRUE, run |-> second.pid,
     data |-> [num_coins |-> Cardinality(DOMAIN EncoderFrom(1, dataDir, EmptyDict)),
               weights |-> w]]

\* train_model.py lines 188-246 in the second process: the model is built and
\* fitted, and ModelCheckpoint saves after the first epoch, which improves on
\* no earlier one
SecondFit ==
    /\ second.pc = "fit"
    /\ second' = [second EXCEPT !.pc = "save"]
    /\ fileModel' = SecondModel(1)
    /\ UNCHANGED <<dataDir, dsVars, runVars, fileCoinScalers, fileScaler, fileEncoder, srvVars,
                   lastStatus, fix>>

\* train_model.py lines 254-258 in the second process
SecondSaveModel ==
    /\ second.pc = "save"
    /\ second' = [second EXCEPT !.pc = "done"]
    /\ \E w \in 1..EpochLimit : fileModel' = SecondModel(w)
    /\ UNCHANGED <<dataDir, dsVars, runVars, fileCoinScalers, fileScaler, fileEncoder, srvVars,
                   lastStatus, fix>>

\* the second training process is running
SecondTraining == second.pc \notin {"none", "failed", "done"}

\* process_id is in the process table.  The serving process drops the Popen
\* object of a child without waiting for it (lines 29-40), so a child that has
\* exited stays in the table, as a zombie, until the serving process creates
\* its next child, when the subprocess module waits for the exited ones.
InProcessTable(process_id) ==
    /\ process_id = run
    /\ tpc # "idle"
    /\ parent = "server" \/ ~Exited

\* retrain.py lines 86-107: os.kill(process_id, 0) succeeds for every process
\* in the table, OSError is raised for the others
check_training_status(process_id) ==
    [process_id |-> process_id,
     status |-> IF InProcessTable(process_id) THEN "running" ELSE "completed"]

\* the process ids asked for
Pids == 1..(MaxRuns + 1)

CheckTrainingStatus(process_id) ==
    /\ srv = "up"
    /\ lastStatus' = check_training_status(process_id)
    /\ UNCHANGED <<dataDir, dsVars, runVars, diskVars, srvVars, second, fix>>

\* the serving process, the retrain calls made at any time and the status
\* calls
JobsNext ==
    \/ LoadArtifacts
    \/ Retrain
    \/ RetrainAgain
    \/ TrainingStep
    \/ SecondDumpCoinScalers
    \/ SecondDumpGlobalScaler
    \/ SecondDumpEncoder
    \/ SecondFit
    \/ SecondSaveModel
    \/ \E process_id \in Pids : CheckTrainingStatus(process_id)

SpecJobs == RetrainInit /\ [][JobsNext]_vars

\* One training run alone, from the top of load_dataset to the final save, for
\* every sequence of losses; a first run, or a second one over the artifacts
\* of a first
TrainDirs == {d \in SystemDirs : d["tcs"] = AbsentFile}

\* those of them in which some asset is usable
UsableTrainDirs == {d \in TrainDirs : \E c \in Coins : CoinOutcome(d[c]) = "loaded"}

\* the artifacts a completed run number r over dir leaves, its model being w
ArtifactsOf(r, dir, w) ==
    /\ fileCoinScalers = [present |-> TRUE, run |-> r, data |-> ScalersOf(dir)]
    /\ fileScaler = [present |-> TRUE, run |-> r]
    /\ fileEncoder = [present |-> TRUE, run |-> r, data |-> EncoderFrom(1, dir, EmptyDict)]
    /\ fileModel = [present |-> TRUE, run |-> r,
                    data |-> [num_coins |-> Cardinality(DOMAIN EncoderFrom(1, dir, EmptyDict)),
                              weights |-> w]]

TrainInit ==
    /\ dataDir \in TrainDirs
    /\ tpc = "loop"
    /\ todo = Coins
    /\ LoadDatasetStart
    /\ done = EmptyDict
    /\ epoch = 0 /\ weights = 0
    /\ history = <<>> /\ parent = "shell"
    \* the first run, or a second one after a run over what DATA_DIR held then
    /\ \/ run = 1 /\ NothingOnDisk
       \/ run = 2 /\ \E old \in UsableTrainDirs : ArtifactsOf(1, old, 1)
    /\ ServerDown
    /\ OpsIdle

TrainNext ==
    \/ \E coin \in Coins : LoadCoin(coin)
    \/ LoopEnd
    \/ DumpCoinScalers
    \/ DumpGlobalScaler
    \/ DumpEncoder
    \/ BuildModel
    \/ \E loss \in Losses, val_loss \in Losses : FitEpoch(loss, val_loss)
    \/ FitEnd
    \/ SaveModel

SpecTrain == TrainInit /\ [][TrainNext]_vars

----------------------------------------------------------------------------
(* run_complete_fix.py *)

\* lines 12-53: what run_command returns for a command that exits with
\* returncode.  With check_success the non-zero exit raises CalledProcessError
\* in subprocess.run (line 35); without it the exit status is not looked at.
run_command(returncode, check_success) == ~(check_success /\ returncode # 0)

\* the exit status of a script that ran to its end, or died of an exception
ExitCodes == {0, 1}

\* the exit status of train_model.py: main returns after the except clause of
\* lines 171-178, so only an exception that nothing catches gives a non-zero one
TrainReturnCode == IF tpc = "crashed" THEN 1 ELSE 0

\* main has returned, printing report
FixReturns(report) == fix' = [fix EXCEPT !.pc = "end", !.said = report]

\* main goes on at position pc
FixGoes(pc) == fix' = [fix EXCEPT !.pc = pc]

\* lines 56-65 and the branch of main (lines 79, 95, 98, 129, 139, 189) that
\* follows the operator's answer to the prompt main is at
Confirm(answer) ==
    /\ fix.pc \in {"ask_continue", "ask_passed", "ask_refetch", "ask_passed_again",
                   "ask_train", "ask_api"}
    /\ CASE fix.pc = "ask_continue" ->
               IF answer THEN FixGoes("verify") ELSE FixReturns("Aborted by user")
         [] fix.pc = "ask_passed" ->
               IF answer THEN fix' = [fix EXCEPT !.pc = "ask_train", !.passed = TRUE]
               ELSE FixGoes("ask_refetch")
         [] fix.pc = "ask_refetch" ->
               \* line 98 has no else: an operator who declines goes on to line 133
               IF answer THEN FixGoes("fetch") ELSE FixGoes("ask_train")
         [] fix.pc = "ask_passed_again" ->
               IF answer THEN fix' = [fix EXCEPT !.pc = "ask_train", !.passed = TRUE]
               ELSE FixReturns("Data still has issues")
         [] fix.pc = "ask_train" ->
               IF answer THEN FixGoes("train") ELSE FixReturns("Aborted")
         [] fix.pc = "ask_api" ->
               IF answer THEN FixGoes("api") ELSE FixGoes("end")
    /\ UNCHANGED <<dataDir, dsVars, runVars, diskVars, srvVars, second, lastStatus>>

\* lines 88-95: verify_data.py is run with check_success=False; it prints its
\* findings and exits with 0 whatever they are (verify_data.py lines 119-158)
RunVerify ==
    /\ fix.pc = "verify"
    /\ \E returncode \in ExitCodes :
          IF run_command(returncode, FALSE)
          THEN FixGoes("ask_passed")
          ELSE FixGoes("ask_refetch")
    /\ UNCHANGED <<dataDir, dsVars, runVars, diskVars, srvVars, second, lastStatus>>

\* the file fetch_metals_data.py writes (lines 230-286): a timestamped
\* history, fetched or generated, long enough to train on
FetchedFile(metal) == TimestampFile(metal, SEQ_LEN + 1, 0)

\* lines 100-106: fetch_metals_data.py
RunFetch ==
    /\ fix.pc = "fetch"
    /\ \E returncode \in ExitCodes :
          IF run_command(returncode, TRUE)
          THEN /\ dataDir' = [dataDir EXCEPT !["gold"] = FetchedFile("gold")]
               /\ FixGoes("add_metals")
          ELSE /\ UNCHANGED dataDir
               /\ FixReturns("Failed to fetch metals data")
    /\ UNCHANGED <<dsVars, runVars, diskVars, srvVars, second, lastStatus>>

\* lines 111-117: add_metals_to_encoder.py, which saves the encoder when it
\* added a metal
RunAddMetals ==
    /\ fix.pc = "add_metals"
    /\ \E returncode \in ExitCodes :
          IF run_command(returncode, TRUE)
          THEN /\ \E enc \in {WithMetals(fileEncoder)} :
                     fileEncoder' =
                         IF DOMAIN enc # (IF fileEncoder.present THEN DOMAIN fileEncoder.data ELSE {})
                         THEN [present |-> TRUE, run |-> fileEncoder.run, data |-> enc]
                         ELSE fileEncoder
               /\ FixGoes("verify_again")
          ELSE /\ UNCHANGED fileEncoder
               /\ FixReturns("Failed to update encoder")
    /\ UNCHANGED <<dataDir, dsVars, runVars, fileCoinScalers, fileScaler, fileModel, srvVars,
                   second, lastStatus>>

\* lines 123-129: verify_data.py again, its result dropped
RunVerifyAgain ==
    /\ fix.pc = "verify_again"
    /\ FixGoes("ask_passed_again")
    /\ UNCHANGED <<dataDir, dsVars, runVars, diskVars, srvVars, second, lastStatus>>

\* lines 143-146: subprocess.run starts train_model.py ...
FixStartsTraining ==
    /\ fix.pc = "train"
    /\ parent # "fix"
    /\ StartTraining("fix")

\* ... and returns when the training process has exited (lines 143-152)
FixTrainingReturns ==
    /\ fix.pc = "train"
    /\ parent = "fix"
    /\ Exited
    /\ IF run_command(TrainReturnCode, TRUE)
       THEN FixGoes("test")
       ELSE FixReturns("Training failed")
    /\ UNCHANGED <<dataDir, dsVars, runVars, diskVars, srvVars, second, lastStatus>>

\* lines 161-175: predictor.py is run with check_success=False, then the
\* summary is printed
FixTestsPredictions ==
    /\ fix.pc = "test"
    /\ fix' = [fix EXCEPT !.pc = "ask_api", !.said = "COMPLETE"]
    /\ UNCHANGED <<dataDir, dsVars, runVars, diskVars, srvVars, second, lastStatus>>

\* lines 189-198: main.py is started and imports the predictor
FixStartsApi ==
    /\ fix.pc = "api"
    /\ LoadArtifacts

FixNext ==
    \/ \E answer \in BOOLEAN : Confirm(answer)
    \/ RunVerify
    \/ RunFetch
    \/ RunAddMetals
    \/ RunVerifyAgain
    \/ FixStartsTraining
    \/ TrainingStep
    \/ FixTrainingReturns
    \/ FixTestsPredictions
    \/ FixStartsApi

\* run_complete_fix.py started in a shell, over a DATA_DIR no training run has
\* seen yet
FixInit ==
    /\ dataDir \in SystemDirs
    /\ tpc = "idle"
    /\ todo = {}
    /\ LoadDatasetStart
    /\ done = EmptyDict
    /\ run = 0 /\ epoch = 0 /\ weights = 0
    /\ history = <<>> /\ parent = "none"
    /\ NothingOnDisk
    /\ ServerDown
    /\ second = NoSecond
    /\ lastStatus = NoStatus
    /\ fix = [pc |-> "ask_continue", passed |-> FALSE, said |-> ""]

SpecFix == FixInit /\ [][FixNext]_vars

\* A serving process with its HTTP layer, started over the artifacts of a
\* completed run, add_metals_to_encoder.py being run at any time
ApiNext ==
    \/ LoadArtifacts
    \/ LoadCoinEncoder
    \/ AddMetalsToEncoder
    \/ \E asset \in Assets, d \in ApiHorizons : PredictRequest(asset, d)

SpecApi == PredictInit /\ [][ApiNext]_vars

----------------------------------------------------------------------------
(* Properties of predict_price (SpecPredict) *)

\* the last call returned a forecast
Answered == lastCall.asset # "" /\ lastCall.result.status = "ok"

Abs(a) == IF a < 0 THEN -a ELSE a

\* C1: every forecast that predict_price returns has q10 <= q50 <= q90.
C1_QuantilesOrdered ==
    Answered =>
        /\ lastCall.result.q10 <= lastCall.result.q50
        /\ lastCall.result.q50 <= lastCall.result.q90

\* C2: every forecast that predict_price returns has each quantile within 50%
\* of the current price: |q - current_price| / current_price <= 0.5 (stated
\* on the values before rounding).
C2_WithinHalfOfCurrent ==
    Answered =>
        \A q \in {lastCall.result.raw.q10, lastCall.result.raw.q50, lastCall.result.raw.q90} :
            2 * Abs(q - lastCall.result.current_price) <= lastCall.result.current_price

\* C3: every forecast that predict_price returns has each quantile at or above
\* the floor 0.01 (stated on the values before rounding).
C3_AboveFloor ==
    Answered =>
        \A q \in {lastCall.result.raw.q10, lastCall.result.raw.q50, lastCall.result.raw.q90} :
            q >= FLOOR_PRICE

\* C6: with the artifacts loaded, a call for an identifier that is not in the
\* encoder raises the unknown-asset ValueError, whatever the horizon, having
\* read no price history and not invoked the model, and returns no forecast.
C6_UnknownAssetRejected ==
    (lastCall.asset # "" /\ ArtifactsLoaded /\ lastCall.asset \notin DOMAIN asset_encoder.data) =>
        /\ lastCall.result.status = "ValueError"
        /\ lastCall.result.error = "unknown_asset"
        /\ lastCall.result.effects = {}

\* C6 witness: an unknown identifier was asked for at an out-of-range horizon,
\* and a listed coin that training skipped was asked for, both with artifacts loaded
C6_Witness ==
    /\ ArtifactsLoaded
    /\ lastCall.asset \notin DOMAIN asset_encoder.data
    /\ \/ lastCall.asset = "unknown_id" /\ lastCall.days_ahead = MAX_DAYS + 15
       \/ lastCall.asset \in Coins /\ DataFileExists(lastCall.asset)
    /\ lastCall.result.error = "unknown_asset"

\* C7: a horizon above 30 gives exactly what 30 gives and a horizon below 1
\* exactly what 1 gives, the reported days_ahead included; no horizon raises.
C7_HorizonClamped ==
    lastCall.asset # "" =>
        /\ lastCall.days_ahead > 30 =>
              /\ lastCall.result = predict_price(lastCall.asset, 30)
              /\ lastCall.result.status = "ok" => lastCall.result.days_ahead = 30
        /\ lastCall.days_ahead < 1 =>
              /\ lastCall.result = predict_price(lastCall.asset, 1)
              /\ lastCall.result.status = "ok" => lastCall.result.days_ahead = 1

\* C7 witness: a forecast was returned for days_ahead = 45, reported as 30
C7_Witness ==
    /\ Answered
    /\ lastCall.days_ahead = MAX_DAYS + 15
    /\ lastCall.result.days_ahead = 30
    /\ lastCall.result = predict_price(lastCall.asset, 30)

----------------------------------------------------------------------------
(* Properties of load_dataset (SpecDataset) *)

\* the rows of coin's file that pass the recency filter
Usable(coin) == RecentRows(dataDir[coin])

\* the file of coin can be read as a price history: it is there and has a
\* Close column
Readable(coin) == dataDir[coin].exists /\ dataDir[coin].hasClose

\* the normalized series of coin: its usable prices under its own scaler
OwnSeries(coin) ==
    With(ClosePrices(Usable(coin)),
         LAMBDA prices : TransformSeq(RobustScalerFit(prices), prices))

\* example k is window i of series s with the price after it as target
IsWindowOf(k, s, i) ==
    /\ i >= 1 /\ i + SEQ_LEN <= Len(s)
    /\ X[k] = SubSeq(s, i, i + SEQ_LEN - 1)
    /\ y[k] = s[i + SEQ_LEN]

\* the examples tagged with the index of coin
ExamplesOf(coin) == {k \in 1..Len(coin_ids) : coin_ids[k] = coin_to_idx[coin]}

\* C8: every training example has a window of exactly SEQ_LEN consecutive
\* normalized prices of one asset, and its target and index are that asset's.
C8_WindowsWithinOneAsset ==
    /\ Len(X) = Len(y) /\ Len(X) = Len(coin_ids)
    /\ \A k \in 1..Len(X) :
          /\ Len(X[k]) = SEQ_LEN
          /\ \E coin \in DOMAIN coin_to_idx : coin_to_idx[coin] = coin_ids[k]
    /\ \A coin \in DOMAIN coin_to_idx :
          \E s \in {OwnSeries(coin)} :
             \A k \in ExamplesOf(coin) :
                \E i \in 1..Len(s) : IsWindowOf(k, s, i)

\* C8 witness: the loop is over with examples of two assets
C8_Witness ==
    /\ tpc = "dump_scalers"
    /\ Cardinality(DOMAIN coin_to_idx) >= 2
    /\ \A coin \in DOMAIN coin_to_idx : ExamplesOf(coin) # {}

\* C9: an asset whose usable history has n >= SEQ_LEN + 1 rows contributes
\* exactly n - SEQ_LEN examples, one per stride-1 window position in order,
\* each with the next price as target.
C9_OneExamplePerPosition ==
    \A coin \in DOMAIN done :
        (Readable(coin) /\ Len(Usable(coin)) >= SEQ_LEN + 1) =>
            /\ coin \in DOMAIN coin_to_idx
            /\ Cardinality(ExamplesOf(coin)) = Len(Usable(coin)) - SEQ_LEN
            /\ \E s \in {OwnSeries(coin)} :
               \E base \in 0..Len(X) :
                  \A j \in 1..(Len(s) - SEQ_LEN) :
                      /\ base + j \in ExamplesOf(coin)
                      /\ IsWindowOf(base + j, s, j)

\* C9 witness: an asset of exactly SEQ_LEN + 1 usable rows gave one example,
\* and another of more rows gave more
C9_Witness ==
    /\ \E coin \in DOMAIN done :
          /\ Readable(coin) /\ Len(Usable(coin)) = SEQ_LEN + 1
          /\ Cardinality(ExamplesOf(coin)) = 1
    /\ \E coin \in DOMAIN done :
          /\ Readable(coin) /\ Len(Usable(coin)) > SEQ_LEN + 1
          /\ Cardinality(ExamplesOf(coin)) = Len(Usable(coin)) - SEQ_LEN

\* the examples that the assets iterated so far should have given
RECURSIVE ExpectedExamples(_)
ExpectedExamples(coins) ==
    IF coins = {} THEN 0
    ELSE LET c == CHOOSE c \in coins : TRUE
         IN  (IF Readable(c) /\ Len(Usable(c)) >= SEQ_LEN + 1
              THEN Len(Usable(c)) - SEQ_LEN ELSE 0)
             + ExpectedExamples(coins \ {c})

\* C10: an asset with fewer than SEQ_LEN + 1 usable rows is skipped: it adds no
\* example, gets no index and no normalizer, and the build goes on with the
\* remaining assets (it fails only when no asset gave an example).
C10_ShortAssetSkipped ==
    /\ \A coin \in DOMAIN done :
          (dataDir[coin].exists /\ Len(Usable(coin)) < SEQ_LEN + 1) =>
              /\ done[coin] = "skipped"
              /\ coin \notin DOMAIN coin_to_idx
              /\ coin \notin DOMAIN coin_scalers
    /\ Len(X) = ExpectedExamples(DOMAIN done)
    /\ tpc # "loop" => DOMAIN done = Coins
    /\ tpc = "failed" => ExpectedExamples(Coins) = 0

\* C10 witness: a too short asset was skipped first, another asset was loaded
\* after it and the build went on to save its artifacts
C10_Witness ==
    /\ tpc = "dump_scalers"
    /\ \E short \in DOMAIN done, other \in DOMAIN coin_to_idx :
          /\ dataDir[short].exists
          /\ Len(Usable(short)) < SEQ_LEN + 1
          /\ done[short] = "skipped"
          /\ ExamplesOf(other) # {}

\* prices to normalize and denormalize: those of the asset's own usable
\* history and a few others, from zero to ten times ONE
ProbePrices(coin) ==
    Range(ClosePrices(Usable(coin))) \cup {0, FLOOR_PRICE, ONE \div 3, ONE, 7 * ONE + 1, 10 * ONE}

\* C18: for every asset with a normalizer and every price x, denormalizing
\* the normalized x with that normalizer gives x back, up to the resolution
\* of the arithmetic (one unit for each of the two roundings, the first
\* multiplied by scale_), also when the history is constant (scale_ is 1).
C18_NormalizeRoundTrip ==
    \A coin \in DOMAIN coin_scalers :
        \E sc \in {coin_scalers[coin]} :
            /\ sc.scale > 0
            /\ \A x \in ProbePrices(coin) :
                  Abs(InverseTransform(sc, Transform(sc, x)) - x) <= sc.scale \div ONE + 1

\* C18 witness: the store holds the normalizer of a constant history and one
\* of a history with spread
C18_Witness ==
    /\ \E coin \in DOMAIN coin_scalers :
          /\ Cardinality(Range(ClosePrices(Usable(coin)))) = 1
          /\ coin_scalers[coin].scale = ONE
    /\ \E coin \in DOMAIN coin_scalers :
          /\ Cardinality(Range(ClosePrices(Usable(coin)))) > 1
          /\ coin_scalers[coin].scale # ONE

----------------------------------------------------------------------------
(* Properties of the artifacts (Spec) *)

\* C4: a model whose embedding table size differs from the number of
\* identifiers in the encoder is rejected at load: the serving process never
\* answers a forecast with a model and an encoder of different cardinality.
C4_MismatchRejected ==
    (srv = "up" /\ Answered) =>
        model.num_coins = Cardinality(DOMAIN asset_encoder.data)

\* the three artifact files are all on disk
AllArtifactsOnDisk == fileModel.present /\ fileCoinScalers.present /\ fileEncoder.present

\* C5: the model, encoder and scaler files are persisted as one unit: whenever
\* the three are on disk they come from the same training run.
C5_ArtifactsFromOneRun ==
    AllArtifactsOnDisk =>
        /\ fileCoinScalers.run = fileModel.run
        /\ fileEncoder.run = fileModel.run

----------------------------------------------------------------------------
(* Properties of a training run (SpecTrain) *)

\* a file written by the current run
WrittenByRun(file) == file.present /\ file.run = run

\* C11: when no asset gave a training example, load_dataset raises (the
\* ValueError of line 94) and the run ends there, having written none of the
\* scaler, encoder and model files: what an earlier run left stays as it was.
C11_NoExamplesAborts ==
    /\ (tpc # "loop" /\ Len(X) = 0) => tpc = "failed"
    /\ tpc = "failed" =>
          /\ Len(X) = 0
          /\ ~WrittenByRun(fileCoinScalers) /\ ~WrittenByRun(fileScaler)
          /\ ~WrittenByRun(fileEncoder) /\ ~WrittenByRun(fileModel)
          /\ ~ENABLED TrainNext

\* C11 witness: a second run found one file too short and one without a Close
\* column and failed, the artifacts of the first run still on disk
C11_Witness ==
    /\ tpc = "failed" /\ run = 2
    /\ \E a, b \in DOMAIN done : done[a] = "skipped" /\ done[b] = "error"
    /\ AllArtifactsOnDisk
    /\ fileCoinScalers.run = 1 /\ fileEncoder.run = 1 /\ fileModel.run = 1

\* load_dataset has returned in the current run
DatasetBuilt == tpc \in {"build", "fit", "save", "done"}

\* the assets with at least one training example under the persisted encoder
Contributors ==
    {c \in DOMAIN fileEncoder.data : \E k \in DOMAIN coin_ids : coin_ids[k] = fileEncoder.data[c]}

\* C12: after a dataset build the identifiers of the persisted encoder are
\* those of the persisted scaler store, and they are exactly the assets that
\* contributed a training example; an asset whose file is missing, too short
\* or made the processing raise is in neither.
C12_EncoderAndScalersAgree ==
    DatasetBuilt =>
        /\ WrittenByRun(fileEncoder) /\ WrittenByRun(fileCoinScalers)
        /\ DOMAIN fileEncoder.data = DOMAIN fileCoinScalers.data
        /\ DOMAIN fileEncoder.data = Contributors
        /\ Contributors = {c \in Coins : Readable(c) /\ Len(Usable(c)) >= SEQ_LEN + 1}
        /\ \A c \in Coins :
              done[c] \in {"nofile", "skipped", "error"} =>
                  c \notin DOMAIN fileEncoder.data /\ c \notin DOMAIN fileCoinScalers.data

\* C12 witness: a build has returned in which one asset contributed and
\* another was skipped or raised
C12_Witness ==
    /\ tpc = "build"
    /\ Contributors # {}
    /\ \E c \in Coins : done[c] \in {"skipped", "error"} /\ dataDir[c].exists
    /\ DOMAIN fileCoinScalers.data = Contributors

\* epoch i had the lowest validation loss of the run
BestValEpoch(i) ==
    /\ i \in DOMAIN history
    /\ history[i].val_loss # NaN
    /\ \A j \in DOMAIN history :
          history[j].val_loss = NaN \/ history[i].val_loss <= history[j].val_loss

\* C13: when a training run has completed, the model file holds the weights
\* of an epoch with the lowest validation loss of the run, whatever the
\* losses of the epochs were.
C13_BestCheckpointShipped ==
    (tpc = "done" /\ \E i \in DOMAIN history : history[i].val_loss # NaN) =>
        /\ WrittenByRun(fileModel)
        /\ BestValEpoch(fileModel.data.weights)

\* the training loss of some epoch of the current run was not finite
LossWentNaN == \E i \in DOMAIN history : history[i].loss = NaN

\* C14: once the loss has become non-finite the run aborts: it does not go on
\* to the final save, and the model file is not one this run wrote with the
\* weights of an epoch of non-finite loss.
C14_NaNLossAborts ==
    LossWentNaN =>
        /\ tpc \notin {"save", "done"}
        /\ WrittenByRun(fileModel) => history[fileModel.data.weights].loss # NaN

----------------------------------------------------------------------------
(* Properties of the serving process (SpecRetrain, SpecPredict, SpecApi) *)

\* C15: once the serving process has loaded its artifacts, no step of a
\* retrain it started (or of anything else) changes the model, the scaler
\* store or the encoder it holds: they stay as loaded at startup.
C15_RetrainKeepsLoadedArtifacts ==
    [][srv = "up" => UNCHANGED <<srv, model, scaler, asset_encoder>>]_vars

\* C15 witness: a run started by the serving process has completed and left a
\* model other than the one the process holds, and a forecast was answered
C15_Witness ==
    /\ srv = "up" /\ ArtifactsLoaded
    /\ parent = "server" /\ tpc = "done"
    /\ fileModel.run = run
    /\ fileModel.data.weights # model.weights
    /\ Answered

\* C16: predict_price asked again with the asset and horizon of the last
\* call, the artifacts and the price history being as they were, gives what
\* the last call gave: the call changed nothing that a later call reads.
C16_SameCallSameOutput ==
    (srv = "up" /\ lastCall.asset # "") =>
        lastCall.result = predict_price(lastCall.asset, lastCall.days_ahead)

\* C16 witness: a forecast for 7 days ahead was answered
C16_Witness ==
    /\ Answered
    /\ lastCall.days_ahead = 7
    /\ lastCall.result.q10 < lastCall.result.q90
    /\ predict_price(lastCall.asset, 7).status = "ok"

\* the last price of the history that predict_price reads for asset (line 146)
CurrentPrice(asset) == dataDir[asset].rows[Len(dataDir[asset].rows)].close

\* the cap of lines 177-180 changes neither end of the interval that the
\* scaling, the floor and the ordering make of the one-step output out at
\* horizon d
CapDoesNotBind(out, cp, d) ==
    \E sf \in {ScaleFactor(d)} :
    \E f50 \in {Floor(Scaled(out.q50, cp, sf))} :
    \E lo \in {OrderLow(Floor(Scaled(out.q10, cp, sf)), f50)} :
    \E hi \in {OrderHigh(Floor(Scaled(out.q90, cp, sf)), f50)} :
        CapLow(lo, cp) = lo /\ CapHigh(hi, cp) = hi

\* C17: for one asset, history and one-step model output, the interval
\* q90 - q10 returned for days_ahead = 7 is at least as wide as the one
\* returned for days_ahead = 1, whenever the 50% cap does not bind at 7.
C17_WiderAtSevenDays ==
    (Answered /\ lastCall.days_ahead = 7) =>
        \E one \in {predict_price(lastCall.asset, 1)} :
            CapDoesNotBind(one.raw, CurrentPrice(lastCall.asset), 7) =>
                lastCall.result.q90 - lastCall.result.q10 >= one.q90 - one.q10

\* C19: a GET /predict request (with a valid days_ahead) for an identifier
\* that is not in the encoder is answered with status 404 and no other.
C19_UnknownAssetIs404 ==
    (/\ lastResponse.asset # ""
     /\ ValidQuery(lastResponse.days_ahead)
     /\ lastResponse.asset \notin DOMAIN coin_encoder.data) =>
        lastResponse.status = 404

\* the denormalized output of the network for the last SEQ_LEN prices of
\* asset (lines 119-143), for an asset that predict_price answers
DenormalizedOutput(asset) ==
    With(ClosePrices(dataDir[asset].rows), LAMBDA prices :
         Denormalize(scaler.data[asset],
                     ModelPredict(model.weights,
                                  SubSeq(TransformSeq(scaler.data[asset], prices),
                                         Len(prices) - SEQ_LEN + 1, Len(prices)),
                                  asset_encoder.data[asset])))

\* C20: for days_ahead = 1 the forecast is the denormalized model output
\* after the floor, ordering and cap steps that days_ahead > 1 applies.
C20_RepairAtOneDay ==
    (Answered /\ lastCall.result.days_ahead = 1) =>
        \E out \in {DenormalizedOutput(lastCall.asset)} :
            lastCall.result.raw = Repair(out.q10, out.q50, out.q90, CurrentPrice(lastCall.asset))

\* C21: for every horizon above 1 the forecast, before rounding, keeps the
\* margins of the ordering step, q10 <= 0.95 * q50 and q90 >= 1.05 * q50 (the
\* products rounded as the ordering step rounds them): the cap after it does
\* not undo them.
C21_MarginsSurviveCap ==
    (Answered /\ lastCall.result.days_ahead > 1) =>
        /\ lastCall.result.raw.q10 <= (lastCall.result.raw.q50 * 95) \div 100
        /\ lastCall.result.raw.q90 >= (lastCall.result.raw.q50 * 105) \div 100

\* C22: once the encoder is on disk with a trained model, only the dataset
\* rebuild of a training run writes it: no other step adds, removes or
\* re-indexes an identifier.
C22_RegistryReadOnly ==
    [][(AllArtifactsOnDisk /\ fileEncoder' # fileEncoder) =>
           (tpc = "dump_encoder" /\ fileEncoder'.data = coin_to_idx)]_vars

\* the assets registered so far
Registered == {c \in DOMAIN done : done[c] = "loaded"}

\* C23: load_dataset gives dense zero-based indices in first-registered order:
\* with n assets registered the indices are exactly 0..n-1, next comes n, an
\* asset that was skipped or failed took none, num_coins is n, and the indices
\* of the examples start at 0, go up by one with each newly registered asset
\* and stay below num_coins, the size of the embedding table.
C23_DenseIndices ==
    \E n \in {Cardinality(Registered)} :
        /\ DOMAIN coin_to_idx = Registered
        /\ {coin_to_idx[c] : c \in Registered} = 0..(n - 1)
        /\ idx = n
        /\ NumCoins = n
        /\ \A k \in 1..Len(coin_ids) :
              /\ coin_ids[k] >= 0 /\ coin_ids[k] < NumCoins
              /\ k = 1 => coin_ids[k] = 0
              /\ k > 1 => coin_ids[k] \in {coin_ids[k - 1], coin_ids[k - 1] + 1}

\* C23 witness: the loop is over, two assets were registered and gave examples
\* and a third was not
C23_Witness ==
    /\ tpc = "dump_scalers"
    /\ Cardinality(Registered) = 2
    /\ Cardinality(DOMAIN done) = 3
    /\ Range(coin_ids) = {0, 1}

\* the (window, target) pairs of coin, in the order of its examples
PairsOf(coin) ==
    [j \in 1..Cardinality(ExamplesOf(coin)) |->
        With(CHOOSE k \in ExamplesOf(coin) :
                 Cardinality({m \in ExamplesOf(coin) : m < k}) = j - 1,
             LAMBDA k : [window |-> X[k], target |-> y[k]])]

\* the pairs that the file of coin gives when it is the only one there is
OwnPairs(coin) ==
    With(OwnSeries(coin),
         LAMBDA s : [j \in 1..(Len(s) - SEQ_LEN) |->
                        [window |-> SubSeq(s, j, j + SEQ_LEN - 1), target |-> s[j + SEQ_LEN]]])

\* C24: the normalizer of an asset and its sequence of (window, target) pairs
\* are functions of that asset's own filtered history: they are what the
\* asset's file alone gives, whatever the other files hold and whichever of
\* them were iterated before it.
C24_OwnHistoryOnly ==
    \A coin \in DOMAIN coin_scalers :
        /\ coin_scalers[coin] = RobustScalerFit(ClosePrices(Usable(coin)))
        /\ PairsOf(coin) = OwnPairs(coin)

\* C24 witness: an asset was loaded after another one with a different
\* normalizer
C24_Witness ==
    \E coin \in DOMAIN coin_scalers, other \in DOMAIN coin_scalers :
        /\ ExamplesOf(coin) # {} /\ ExamplesOf(other) # {}
        /\ coin_to_idx[other] < coin_to_idx[coin]
        /\ coin_scalers[other] # coin_scalers[coin]

\* C25: a training process started by retrain_coin or retrain_all_coins
\* always eventually finishes, however much it prints to the pipes that the
\* serving process holds and never reads.
C25_RetrainFinishes == (parent = "server" /\ ~Exited) ~> Exited

\* C26: at most one training run writes the artifact files at a time: two
\* training processes never run concurrently.
C26_OneTrainingAtATime == ~(Training /\ SecondTraining)

\* C27: check_training_status answers "running" only for a process that is
\* still executing, and "completed" on every call made after it exited.
C27_RunningOnlyWhileExecuting ==
    [][lastStatus' # lastStatus =>
           (lastStatus'.status = "running" <=> (lastStatus'.process_id = run /\ Training))]_vars

\* C28: run_complete_fix starts training only after a verification run that
\* the operator confirmed as passed: on no path without that confirmation,
\* declining the re-fetch included, is train_model.py launched.
C28_TrainingOnlyAfterVerifiedData == parent = "fix" => fix.passed

\* C29: when train_model.py ends because the dataset could not be built,
\* run_complete_fix reports "Training failed" and stops: it does not go on to
\* test predictions or to print the summary.
C29_DatasetFailureStopsFix ==
    (parent = "fix" /\ tpc = "failed" /\ fix.pc # "train") =>
        (fix.pc = "end" /\ fix.said = "Training failed")

\* C30: the artifacts are loaded all or none: in a serving process model,
\* scaler and asset_encoder are all three loaded or all three None, whichever
\* of the files could not be loaded; and while they are None predict_price
\* raises RuntimeError for every asset, known or not, and every horizon,
\* before any other check.
C30_AllOrNothingLoad ==
    srv = "up" =>
        /\ model.loaded = scaler.loaded /\ scaler.loaded = asset_encoder.loaded
        /\ ~model.loaded =>
              /\ model = NoneModel /\ scaler = NoneDict /\ asset_encoder = NoneDict
              /\ \A asset \in Assets, d \in Horizons :
                    predict_price(asset, d) = Raised("RuntimeError", "not_loaded", {})
              /\ lastCall.asset # "" => lastCall.result = Raised("RuntimeError", "not_loaded", {})
        /\ model.loaded => (fileModel.present /\ fileCoinScalers.present /\ fileEncoder.present)

\* C30 witness: the model file is there and the encoder file is not, the
\* serving process is up with nothing loaded, and a call for an asset of the
\* training run was answered with RuntimeError
C30_Witness ==
    /\ srv = "up"
    /\ fileModel.present /\ fileCoinScalers.present /\ ~fileEncoder.present
    /\ ~model.loaded
    /\ lastCall.asset \in DOMAIN fileCoinScalers.data
    /\ lastCall.result.status = "RuntimeError"

====
